---- MODULE Spec2Model ----
(***************************************************************************)
(* Model of package fetch (github.com/stockparfait/fetch): the retry loop  *)
(* Retry, the default error classifier of NewParams, and the request       *)
(* executor Get with its two status predicates.                            *)
(*                                                                         *)
(* Errors are modelled as chains of layers, outermost layer first: the     *)
(* head of the chain is the dynamic type of the Go error value, the tail   *)
(* is the error it wraps.  The nil error is the empty chain.               *)
(***************************************************************************)
EXTENDS Integers, Sequences, FiniteSets, TLC

\* ------------------------------------------------------------------ bounds
\* Largest attempt budget (Params.NumRetries) enumerated.
MaxRetries == 3
\* Width, in bits, of the signed integer standing for time.Duration (int64 in
\* the program); durations range over -2^(DurBits-1) .. 2^(DurBits-1)-1.
DurBits == 3
\* Largest HTTP status code enumerated.
MaxStatus == 650
\* Deepest chain of wrappers built around an error in SpecClassifier.
MaxWrap == 3
\* Largest attempt budget of the policy shared by concurrent sequences.
MaxSharedRetries == 2

VARIABLES
    params,     \* the policy: NumRetries, RetryMinWait, RetryMaxWait, IsRetriable
    ctx,        \* the context: [done, err]
    pc,         \* position of Retry: "loop", "call", "attempt", "sleep", "done"
    i,          \* loop counter of Retry
    wait,       \* backoff state of Retry
    err,        \* last error returned by fn
    result,     \* value returned by Retry
    exit,       \* the return statement Retry left by
    calls,      \* number of invocations of fn
    args,       \* attempt indices passed to fn, in order
    outcomes,   \* errors returned by fn, in order
    sleeps,     \* durations passed to time.Sleep, in order
    cancelIter, \* iteration whose attempt or sleep the context ended in (-1: before the first check)
    lateCalls,  \* invocations of fn that began when the context was already done
    elapsed,    \* time spent in time.Sleep so far
    getIn,      \* input of Get: what the HTTP client does with the request
    getPc,      \* position of Get and of its caller
    getResp,    \* response returned by Get
    getErr,     \* error returned by Get
    getVerdict, \* default classifier applied to getErr
    clsErr,     \* an error value handed to the default classifier
    clsPc,      \* "build" or "classified"
    clsVerdict, \* what the default classifier answered
    grUriOk,    \* GetRetry: whether http.NewRequestWithContext accepts the uri
    grResp,     \* GetRetry: its named result resp, assigned by the closure
    grInputs,   \* GetRetry: what happened to each call of Get, in order
    grRequests, \* GetRetry: number of requests handed to the HTTP client
    cParams,    \* concurrent sequences: the one policy object they all use
    cWait,      \* concurrent sequences: the wait variables, by storage slot
    cSeq        \* concurrent sequences: each one's context, locals and effects

retryVars == <<params, ctx, pc, i, wait, err, result, exit, calls, args,
               outcomes, sleeps, cancelIter, lateCalls, elapsed>>
getVars == <<getIn, getPc, getResp, getErr, getVerdict>>
clsVars == <<clsErr, clsPc, clsVerdict>>
grVars == <<grUriOk, grResp, grInputs, grRequests>>
concVars == <<cParams, cWait, cSeq>>
vars == <<retryVars, getVars, clsVars, grVars, concVars>>

\* ------------------------------------------------------------------ errors
Nil == <<>>

Layer(k, m, n) == [kind |-> k, msg |-> m, n |-> n]

\* errors.Reason / any plain error value: a chain of one layer.
Reason(m, n) == <<Layer("reason", m, n)>>

\* context.Canceled and context.DeadlineExceeded.
Canceled == <<Layer("Canceled", "context canceled", 0)>>
DeadlineExceeded == <<Layer("DeadlineExceeded", "context deadline exceeded", 0)>>

\* NewRetriableError: &RetriableError{e}; e may be nil.
NewRetriableError(e) == <<Layer("RetriableError", "", 0)>> \o e

\* errors.Annotate(e, msg, n) for a non-nil e: a new error value wrapping e.
Annotate(e, m, n) == <<Layer("annotation", m, n)>> \o e

\* What errors.Annotate may return: for a nil e the library (outside this
\* repository) either passes nil through or builds an annotation of nothing.
AnnotateResults(e, m, n) ==
    IF e = Nil THEN {Nil, Annotate(Nil, m, n)} ELSE {Annotate(e, m, n)}

\* The error an annotation was built from.
Cause(e) == IF e = Nil THEN Nil ELSE Tail(e)

\* Some layer of the chain is a RetriableError (what errors.As would find).
WrapsRetriable(e) == \E j \in 1..Len(e) : e[j].kind = "RetriableError"

\* -------------------------------------------------------------- classifier
DefaultIsRetriableUnwrap(e) == WrapsRetriable(e)

\* The IsRetriable closure of NewParams: _, ok := e.(*RetriableError).
DefaultIsRetriable(e) == e # Nil /\ Head(e).kind = "RetriableError"

\* The classifiers a policy may carry: the default one, and one supplied by
\* the caller through IsRetriableFn, which accepts every error.
Classifiers == {"default", "any"}

IsRetriable(p, e) ==
    CASE p.IsRetriable = "default" -> DefaultIsRetriable(e)
      [] p.IsRetriable = "any" -> e # Nil

\* --------------------------------------------------------------- durations
MinDuration == -(2 ^ (DurBits - 1))
MaxDuration == 2 ^ (DurBits - 1) - 1
Durations == MinDuration..MaxDuration

\* Two's complement wrap-around of the duration type.
Wrap(x) == ((x - MinDuration) % (2 ^ DurBits)) + MinDuration

NextWaitNoClamp(w, p) == Wrap(2 * w)

\* wait = 2 * wait; if wait > params.RetryMaxWait { wait = params.RetryMaxWait }
NextWait(w, p) ==
    LET d == Wrap(2 * w)
    IN IF d > p.RetryMaxWait THEN p.RetryMaxWait ELSE d

\* ------------------------------------------------------------------- Retry
Policies ==
    [NumRetries : -1..MaxRetries,
     RetryMinWait : Durations,
     RetryMaxWait : Durations,
     IsRetriable : Classifiers]

Contexts ==
    {[done |-> FALSE, err |-> Nil],
     [done |-> TRUE, err |-> Canceled],
     [done |-> TRUE, err |-> DeadlineExceeded]}

\* What fn may return on its n-th invocation: nil, a RetriableError, a plain
\* error, or a RetriableError annotated with context.
RetriableErr(n) == NewRetriableError(Reason("transient", n))
PermanentErr(n) == Reason("permanent", n)
AnnotatedRetriableErr(n) == Annotate(RetriableErr(n), "attempt failed", n)
AttemptOutcomes(n) ==
    {Nil, RetriableErr(n), PermanentErr(n), AnnotatedRetriableErr(n)}

LoopCondStrict(n, p) == n < p.NumRetries

LoopCondOneMore(n, p) == n <= p.NumRetries + 1

\* for i := 0; i <= params.NumRetries; i++
LoopCond(n, p) == n <= p.NumRetries

SelectDoneNever(c) == FALSE

\* select { case <-ctx.Done(): ...; default: }
SelectDone(c) == c.done

AttemptBranchRetryAll(p, e) ==
    IF e = Nil THEN "return_nil" ELSE "sleep"

AttemptBranchNoSuccess(p, e) ==
    IF ~IsRetriable(p, e) THEN "return_permanent" ELSE "sleep"

\* The three ways Retry goes on after fn returned e.
AttemptBranch(p, e) ==
    IF e = Nil THEN "return_nil"
    ELSE IF ~IsRetriable(p, e) THEN "return_permanent"
    ELSE "sleep"

InitRetry ==
    /\ params \in Policies
    /\ ctx \in Contexts
    /\ pc = "loop"
    /\ i = 0
    /\ wait = params.RetryMinWait
    /\ err = Nil
    /\ result = Nil
    /\ exit = "none"
    /\ calls = 0
    /\ args = <<>>
    /\ outcomes = <<>>
    /\ sleeps = <<>>
    /\ cancelIter = -1
    /\ lateCalls = 0
    /\ elapsed = 0

\* Top of the loop: the loop condition and the cancellation check; or the
\* return after the loop.
LoopTop ==
    /\ pc = "loop"
    /\ IF LoopCond(i, params)
       THEN IF SelectDone(ctx)
            THEN /\ result' = Annotate(ctx.err, "context is canceled", 0)
                 /\ exit' = "ctx"
                 /\ pc' = "done"
            ELSE /\ pc' = "call"
                 /\ UNCHANGED <<result, exit>>
       ELSE /\ \E r \in AnnotateResults(err, "exhausted %d retries", params.NumRetries) :
                 result' = r
            /\ exit' = "exhausted"
            /\ pc' = "done"
    /\ UNCHANGED <<params, ctx, i, wait, err, calls, args, outcomes, sleeps,
                   cancelIter, lateCalls, elapsed>>

AttemptIndexOneBased(n) == n + 1

\* The argument of fn(i).
AttemptIndex(n) == n

\* fn(i) begins.  The select has no lock on the context: the context may have
\* ended since the check.
CallFn ==
    /\ pc = "call"
    /\ pc' = "attempt"
    /\ calls' = calls + 1
    /\ args' = Append(args, AttemptIndex(i))
    /\ lateCalls' = IF ctx.done THEN lateCalls + 1 ELSE lateCalls
    /\ UNCHANGED <<params, ctx, i, wait, err, result, exit, outcomes, sleeps,
                   cancelIter, elapsed>>

\* fn(i) returned e: Retry returns on success and on a permanent error, and
\* otherwise enters time.Sleep(wait).
FnReturns(e) ==
    /\ pc = "attempt"
    /\ err' = e
    /\ outcomes' = Append(outcomes, e)
    /\ CASE AttemptBranch(params, e) = "return_nil" ->
              /\ result' = Nil
              /\ exit' = "ok"
              /\ pc' = "done"
              /\ UNCHANGED sleeps
         [] AttemptBranch(params, e) = "return_permanent" ->
              /\ \E r \in AnnotateResults(e, "error cannot be retried", 0) :
                   result' = r
              /\ exit' = "permanent"
              /\ pc' = "done"
              /\ UNCHANGED sleeps
         [] AttemptBranch(params, e) = "sleep" ->
              /\ sleeps' = Append(sleeps, wait)
              /\ pc' = "sleep"
              /\ UNCHANGED <<result, exit>>
    /\ UNCHANGED <<params, ctx, i, wait, calls, args, cancelIter, lateCalls,
                   elapsed>>

\* fn(i) returns, for an arbitrary fn.
AttemptReturns == \E e \in AttemptOutcomes(i) : FnReturns(e)

SleptForUntilCancel(w, c) == IF c.done \/ w < 0 THEN 0 ELSE w

\* How long time.Sleep(w) blocks: w, or not at all when w <= 0.  The context
\* plays no part.
SleptFor(w, c) == IF w < 0 THEN 0 ELSE w

\* time.Sleep returns; the wait doubles up to the cap and the loop counter
\* advances.
SleepEnds ==
    /\ pc = "sleep"
    /\ elapsed' = elapsed + SleptFor(wait, ctx)
    /\ wait' = NextWait(wait, params)
    /\ i' = i + 1
    /\ pc' = "loop"
    /\ UNCHANGED <<params, ctx, err, result, exit, calls, args, outcomes,
                   sleeps, cancelIter, lateCalls>>

\* The context ends (cancel function called or deadline passed) while Retry
\* is running: between iterations, during fn, or during the sleep.
Cancel ==
    /\ pc # "done"
    /\ ~ctx.done
    /\ \E e \in {Canceled, DeadlineExceeded} : ctx' = [done |-> TRUE, err |-> e]
    /\ cancelIter' = IF pc = "loop" THEN i - 1 ELSE i
    /\ UNCHANGED <<params, pc, i, wait, err, result, exit, calls, args,
                   outcomes, sleeps, lateCalls, elapsed>>

\* --------------------------------------------------------------------- Get
\* ResponseOK: 200 <= r.StatusCode && r.StatusCode <= 299
ResponseOK(s) == 200 <= s /\ s <= 299

ResponseRetriableWide(s) == 400 <= s /\ s <= 599

ResponseRetriableStrict(s) == 500 < s /\ s <= 599

\* ResponseRetriable: 500 <= r.StatusCode && r.StatusCode <= 599
ResponseRetriable(s) == 500 <= s /\ s <= 599

NoResponse == [present |-> FALSE, status |-> 0]
Response(s) == [present |-> TRUE, status |-> s]

StatusCodes == 100..MaxStatus

\* What can happen to one request: the request cannot be built, the client
\* fails before any status is obtained, the client fails on a redirect (it
\* then hands back the redirect response with its error), or the request
\* completes with a status.
GetInputs ==
    {[kind |-> "bad_request", status |-> 0],
     [kind |-> "transport_error", status |-> 0],
     [kind |-> "redirect_error", status |-> 302]}
    \cup [kind : {"response"}, status : StatusCodes]

\* Get as it would be if a failure of the client were marked retriable.
GetTransportRetriable(in) ==
    CASE in.kind = "bad_request" ->
           <<NoResponse,
             Annotate(Reason("bad request", 0), "failed to create HTTP request", 0)>>
      [] in.kind = "transport_error" ->
           <<NoResponse, NewRetriableError(Reason("transport", 0))>>
      [] in.kind = "redirect_error" ->
           <<Response(in.status), NewRetriableError(Reason("redirect", 0))>>
      [] in.kind = "response" ->
           IF ResponseOK(in.status) THEN <<Response(in.status), Nil>>
           ELSE IF ResponseRetriable(in.status)
                THEN <<Response(in.status), NewRetriableError(Nil)>>
                ELSE <<Response(in.status), Reason("response code", in.status)>>

\* Get: the pair <<resp, err>> it returns.
Get(in) ==
    CASE in.kind = "bad_request" ->
           <<NoResponse,
             Annotate(Reason("bad request", 0), "failed to create HTTP request", 0)>>
      [] in.kind = "transport_error" ->
           <<NoResponse, Annotate(Reason("transport", 0), "failed to GET URL", 0)>>
      [] in.kind = "redirect_error" ->
           <<Response(in.status),
             Annotate(Reason("redirect", 0), "failed to GET URL", 0)>>
      [] in.kind = "response" ->
           IF ResponseOK(in.status) THEN <<Response(in.status), Nil>>
           ELSE IF ResponseRetriable(in.status)
                THEN <<Response(in.status), NewRetriableError(Nil)>>
                ELSE <<Response(in.status), Reason("response code", in.status)>>

InitGet ==
    /\ getIn \in GetInputs
    /\ getPc = "call"
    /\ getResp = NoResponse
    /\ getErr = Nil
    /\ getVerdict = FALSE

GetReturns ==
    /\ getPc = "call"
    /\ getResp' = Get(getIn)[1]
    /\ getErr' = Get(getIn)[2]
    /\ getPc' = "returned"
    /\ UNCHANGED <<getIn, getVerdict>>

\* The caller hands Get's error to the default classifier.
GetClassify ==
    /\ getPc = "returned"
    /\ getVerdict' = DefaultIsRetriable(getErr)
    /\ getPc' = "classified"
    /\ UNCHANGED <<getIn, getResp, getErr>>

\* ---------------------------------------------- classifier on built errors
BaseErrors ==
    {Nil, Reason("plain", 0), Reason("other", 1), Canceled, DeadlineExceeded}

InitCls ==
    /\ clsErr \in BaseErrors
    /\ clsPc = "build"
    /\ clsVerdict = FALSE

Wrappers(e) == Cardinality({j \in 1..Len(e) : e[j].kind \in {"RetriableError", "annotation"}})

ClsWrapRetriable ==
    /\ clsPc = "build"
    /\ Wrappers(clsErr) < MaxWrap
    /\ clsErr' = NewRetriableError(clsErr)
    /\ UNCHANGED <<clsPc, clsVerdict>>

ClsAnnotate ==
    /\ clsPc = "build"
    /\ Wrappers(clsErr) < MaxWrap
    /\ clsErr # Nil
    /\ clsErr' = Annotate(clsErr, "context", 0)
    /\ UNCHANGED <<clsPc, clsVerdict>>

ClsClassify ==
    /\ clsPc = "build"
    /\ clsVerdict' = DefaultIsRetriable(clsErr)
    /\ clsPc' = "classified"
    /\ UNCHANGED clsErr

\* ---------------------------------------------------------- specifications
IdleRetry ==
    /\ params = [NumRetries |-> 0, RetryMinWait |-> 0, RetryMaxWait |-> 0,
                 IsRetriable |-> "default"]
    /\ ctx = [done |-> FALSE, err |-> Nil]
    /\ pc = "done"
    /\ i = 0
    /\ wait = 0
    /\ err = Nil
    /\ result = Nil
    /\ exit = "none"
    /\ calls = 0
    /\ args = <<>>
    /\ outcomes = <<>>
    /\ sleeps = <<>>
    /\ cancelIter = -1
    /\ lateCalls = 0
    /\ elapsed = 0

IdleGet ==
    /\ getIn = [kind |-> "bad_request", status |-> 0]
    /\ getPc = "idle"
    /\ getResp = NoResponse
    /\ getErr = Nil
    /\ getVerdict = FALSE

IdleCls ==
    /\ clsErr = Nil
    /\ clsPc = "idle"
    /\ clsVerdict = FALSE

IdleGetRetry ==
    /\ grUriOk = TRUE
    /\ grResp = NoResponse
    /\ grInputs = <<>>
    /\ grRequests = 0

IdleConc ==
    /\ cParams = [NumRetries |-> 0, RetryMinWait |-> 0, RetryMaxWait |-> 0,
                  IsRetriable |-> "default"]
    /\ cWait = <<>>
    /\ cSeq = <<>>

\* One call of Retry, with the context ending at any moment.
Init == InitRetry /\ IdleGet /\ IdleCls /\ IdleGetRetry /\ IdleConc

Next ==
    \/ (LoopTop /\ UNCHANGED <<getVars, clsVars, grVars, concVars>>)
    \/ (CallFn /\ UNCHANGED <<getVars, clsVars, grVars, concVars>>)
    \/ (AttemptReturns /\ UNCHANGED <<getVars, clsVars, grVars, concVars>>)
    \/ (SleepEnds /\ UNCHANGED <<getVars, clsVars, grVars, concVars>>)
    \/ (Cancel /\ UNCHANGED <<getVars, clsVars, grVars, concVars>>)

Spec == Init /\ [][Next]_vars

\* A step of Retry itself.
RetryStep ==
    (LoopTop \/ CallFn \/ AttemptReturns \/ SleepEnds)
        /\ UNCHANGED <<getVars, clsVars, grVars, concVars>>

\* A few waits stand for all: the waits decide how long Retry sleeps, never
\* where it goes next.
InitTermination ==
    /\ Init
    /\ params.RetryMinWait \in {0, 1}
    /\ params.RetryMaxWait \in {1, MaxDuration}

\* One call of Retry that keeps running: the goroutine is scheduled, fn and
\* the classifier return, and a sleep of a finite duration ends.  Nothing
\* obliges the context to end.
SpecTermination == InitTermination /\ [][Next]_vars /\ WF_vars(RetryStep)

\* One call of Get, its error then classified by the default classifier.
NextGet ==
    \/ (GetReturns /\ UNCHANGED <<retryVars, clsVars, grVars, concVars>>)
    \/ (GetClassify /\ UNCHANGED <<retryVars, clsVars, grVars, concVars>>)

InitSpecGet == IdleRetry /\ InitGet /\ IdleCls /\ IdleGetRetry /\ IdleConc

SpecGet == InitSpecGet /\ [][NextGet]_vars

\* The default classifier applied to errors built by wrapping.
NextCls ==
    \/ (ClsWrapRetriable /\ UNCHANGED <<retryVars, getVars, grVars, concVars>>)
    \/ (ClsAnnotate /\ UNCHANGED <<retryVars, getVars, grVars, concVars>>)
    \/ (ClsClassify /\ UNCHANGED <<retryVars, getVars, grVars, concVars>>)

InitSpecClassifier == IdleRetry /\ IdleGet /\ InitCls /\ IdleGetRetry /\ IdleConc

SpecClassifier == InitSpecClassifier /\ [][NextCls]_vars

\* ---------------------------------------------------------------- GetRetry
\* NumRetries of NewParams.
DefaultNumRetries == 3

\* NewParams, which GetRetry uses when it is given nil params.  Its waits are
\* time.Second and time.Minute; on the model's narrow duration type they are
\* one unit and the largest duration.
NewParams ==
    [NumRetries |-> DefaultNumRetries,
     RetryMinWait |-> 1,
     RetryMaxWait |-> MaxDuration,
     IsRetriable |-> "default"]

\* The policies GetRetry is run with: NewParams (for nil) and policies with
\* every budget, under the default classifier and under a caller's classifier
\* that accepts every error.
GetRetryPolicies ==
    {NewParams}
    \cup [NumRetries : -1..MaxRetries,
          RetryMinWait : {1},
          RetryMaxWait : {MaxDuration},
          IsRetriable : {"default", "any"}]

\* What can happen to the Get of one attempt.  Whether the request can be
\* built depends on the uri alone, so it is the same for every attempt.
GetRetryInputs(uriOk) ==
    IF uriOk
    THEN {[kind |-> "transport_error", status |-> 0]}
         \cup [kind : {"response"}, status : {200, 204, 403, 500, 503}]
    ELSE {[kind |-> "bad_request", status |-> 0]}

ClosureRespOnSuccess(old, new, e) == IF e = Nil THEN new ELSE old

\* resp, err = Get(ctx, uri, query): the closure overwrites GetRetry's resp
\* on every attempt.
ClosureResp(old, new, e) == new

InitGetRetry ==
    /\ InitRetry
    /\ params \in GetRetryPolicies
    /\ grUriOk \in BOOLEAN
    /\ grResp = NoResponse
    /\ grInputs = <<>>
    /\ grRequests = 0

\* The closure of GetRetry returns: one Get, its response kept in resp, its
\* error handed back to Retry.
GetRetryAttempt ==
    \E in \in GetRetryInputs(grUriOk) :
        /\ FnReturns(Get(in)[2])
        /\ grResp' = ClosureResp(grResp, Get(in)[1], Get(in)[2])
        /\ grInputs' = Append(grInputs, in)
        /\ grRequests' = IF in.kind = "bad_request" THEN grRequests
                         ELSE grRequests + 1
        /\ UNCHANGED grUriOk

InitSpecGetRetry == InitGetRetry /\ IdleGet /\ IdleCls /\ IdleConc

NextGetRetry ==
    \/ (LoopTop /\ UNCHANGED <<getVars, clsVars, grVars, concVars>>)
    \/ (CallFn /\ UNCHANGED <<getVars, clsVars, grVars, concVars>>)
    \/ (GetRetryAttempt /\ UNCHANGED <<getVars, clsVars, concVars>>)
    \/ (SleepEnds /\ UNCHANGED <<getVars, clsVars, grVars, concVars>>)
    \/ (Cancel /\ UNCHANGED <<getVars, clsVars, grVars, concVars>>)

\* One call of GetRetry, with the context ending at any moment.
SpecGetRetry == InitSpecGetRetry /\ [][NextGetRetry]_vars

\* ------------------------------------------------- concurrent sequences
\* Two goroutines, each in its own call of Retry with its own context and
\* its own fn, both given the same *Params.
Procs == {1, 2}

WaitSlotShared(q) == 1

\* wait := params.RetryMinWait declares a variable of the call: every call
\* has its own.
WaitSlot(q) == q

SharedPolicies ==
    [NumRetries : 0..MaxSharedRetries,
     RetryMinWait : {0, 1, 2},
     RetryMaxWait : {1, MaxDuration},
     IsRetriable : {"default"}]

\* What the fn of a sequence may return.
SharedOutcomes(n) == {Nil, RetriableErr(n), PermanentErr(n)}

InitConc ==
    /\ cParams \in SharedPolicies
    /\ cWait = [q \in Procs |-> 0]
    /\ cSeq = [q \in Procs |->
                 [pc |-> "start", done |-> FALSE, i |-> 0, err |-> Nil,
                  exit |-> "none", calls |-> 0, args |-> <<>>,
                  outcomes |-> <<>>, sleeps |-> <<>>]]

\* Retry is entered: wait := params.RetryMinWait.
CEnter(q) ==
    /\ cSeq[q].pc = "start"
    /\ cWait' = [cWait EXCEPT ![WaitSlot(q)] = cParams.RetryMinWait]
    /\ cSeq' = [cSeq EXCEPT ![q].pc = "loop"]
    /\ UNCHANGED cParams

CLoopTop(q) ==
    /\ cSeq[q].pc = "loop"
    /\ cSeq' = [cSeq EXCEPT ![q] =
                  IF LoopCond(@.i, cParams)
                  THEN IF SelectDone([done |-> @.done])
                       THEN [@ EXCEPT !.pc = "done", !.exit = "ctx"]
                       ELSE [@ EXCEPT !.pc = "call"]
                  ELSE [@ EXCEPT !.pc = "done", !.exit = "exhausted"]]
    /\ UNCHANGED <<cParams, cWait>>

CCallFn(q) ==
    /\ cSeq[q].pc = "call"
    /\ cSeq' = [cSeq EXCEPT ![q] =
                  [@ EXCEPT !.pc = "attempt",
                            !.calls = @ + 1,
                            !.args = Append(@, AttemptIndex(cSeq[q].i))]]
    /\ UNCHANGED <<cParams, cWait>>

CFnReturns(q) ==
    /\ cSeq[q].pc = "attempt"
    /\ \E e \in SharedOutcomes(cSeq[q].i) :
         cSeq' = [cSeq EXCEPT ![q] =
                   LET r == [@ EXCEPT !.err = e, !.outcomes = Append(@, e)]
                   IN CASE AttemptBranch(cParams, e) = "return_nil" ->
                             [r EXCEPT !.pc = "done", !.exit = "ok"]
                        [] AttemptBranch(cParams, e) = "return_permanent" ->
                             [r EXCEPT !.pc = "done", !.exit = "permanent"]
                        [] AttemptBranch(cParams, e) = "sleep" ->
                             [r EXCEPT !.pc = "sleep",
                                       !.sleeps = Append(@, cWait[WaitSlot(q)])]]
    /\ UNCHANGED <<cParams, cWait>>

CSleepEnds(q) ==
    /\ cSeq[q].pc = "sleep"
    /\ cWait' = [cWait EXCEPT ![WaitSlot(q)] = NextWait(@, cParams)]
    /\ cSeq' = [cSeq EXCEPT ![q] = [@ EXCEPT !.pc = "loop", !.i = @ + 1]]
    /\ UNCHANGED cParams

\* The context of one sequence ends.
CCancel(q) ==
    /\ cSeq[q].pc \notin {"start", "done"}
    /\ ~cSeq[q].done
    /\ cSeq' = [cSeq EXCEPT ![q].done = TRUE]
    /\ UNCHANGED <<cParams, cWait>>

InitSpecConcurrent == IdleRetry /\ IdleGet /\ IdleCls /\ IdleGetRetry /\ InitConc

NextConcurrent ==
    \/ \E q \in Procs : (CEnter(q) /\ UNCHANGED <<retryVars, getVars, clsVars, grVars>>)
    \/ \E q \in Procs : (CLoopTop(q) /\ UNCHANGED <<retryVars, getVars, clsVars, grVars>>)
    \/ \E q \in Procs : (CCallFn(q) /\ UNCHANGED <<retryVars, getVars, clsVars, grVars>>)
    \/ \E q \in Procs : (CFnReturns(q) /\ UNCHANGED <<retryVars, getVars, clsVars, grVars>>)
    \/ \E q \in Procs : (CSleepEnds(q) /\ UNCHANGED <<retryVars, getVars, clsVars, grVars>>)
    \/ \E q \in Procs : (CCancel(q) /\ UNCHANGED <<retryVars, getVars, clsVars, grVars>>)

\* Two calls of Retry running concurrently on one policy.
SpecConcurrent == InitSpecConcurrent /\ [][NextConcurrent]_vars

\* ================================================================== claims
Last(q) == q[Len(q)]

CtxError == Annotate(ctx.err, "context is canceled", 0)

\* The context was already done when Retry made its first check.
PreCancelled == ctx.done /\ cancelIter = -1

\* C1 (as stated): for every policy, when the context is already cancelled
\* as Retry is called, fn is never invoked and Retry returns the annotated
\* error of the context.
C1_PreCancelledAnyPolicy ==
    PreCancelled =>
        /\ calls = 0
        /\ pc = "done" => result = CtxError

\* C1 (amended): for every policy whose attempt budget is not negative, when
\* the context is already cancelled as Retry is called, fn is never invoked
\* and Retry returns the annotated error of the context.
C1_PreCancelledNoAttempt ==
    (PreCancelled /\ params.NumRetries >= 0) =>
        /\ calls = 0
        /\ pc = "done" => (exit = "ctx" /\ result = CtxError)

C1_Witness ==
    /\ pc = "done"
    /\ PreCancelled
    /\ params.NumRetries >= 0
    /\ calls = 0
    /\ exit = "ctx"

\* C2: with a budget N >= 0 and a context that is never cancelled, when fn
\* returns retriable errors on invocations 0..k-1 and nil on invocation k
\* (k <= N), Retry has returned nil, fn was invoked exactly k+1 times and
\* nothing was invoked after the success.
C2_SuccessAfterRetries ==
    \A k \in 0..MaxRetries :
        ( /\ ~ctx.done
          /\ params.NumRetries >= 0
          /\ k <= params.NumRetries
          /\ Len(outcomes) >= k + 1
          /\ outcomes[k + 1] = Nil
          /\ \A j \in 1..k : IsRetriable(params, outcomes[j]) ) =>
        /\ pc = "done"
        /\ result = Nil
        /\ calls = k + 1
        /\ Len(outcomes) = k + 1

C2_Witness ==
    /\ pc = "done"
    /\ ~ctx.done
    /\ params.NumRetries = 2
    /\ Len(outcomes) = 3
    /\ outcomes[3] = Nil
    /\ result = Nil
    /\ calls = 3

\* C3: with a budget N > 0 and a context that is never cancelled, when every
\* invocation of fn returns an error the classifier accepts, fn is invoked
\* exactly N+1 times and Retry returns the last invocation's error annotated
\* as the exhaustion of N retries.
C3_ExhaustionAfterNPlusOne ==
    ( /\ pc = "done"
      /\ ~ctx.done
      /\ params.NumRetries > 0
      /\ \A j \in 1..Len(outcomes) : IsRetriable(params, outcomes[j]) ) =>
    /\ calls = params.NumRetries + 1
    /\ Len(outcomes) = params.NumRetries + 1
    /\ result = Annotate(outcomes[params.NumRetries + 1], "exhausted %d retries",
                         params.NumRetries)

C3_Witness ==
    /\ pc = "done"
    /\ ~ctx.done
    /\ params.NumRetries = MaxRetries
    /\ calls = MaxRetries + 1
    /\ exit = "exhausted"
    /\ \A j \in 1..Len(outcomes) : IsRetriable(params, outcomes[j])

\* C4: when an invocation of fn returns a non-nil error the classifier
\* rejects, Retry has returned that error annotated as not retriable, with no
\* sleep after that invocation and no further invocation, whatever budget
\* remains.
C4_PermanentStopsAtOnce ==
    \A k \in 1..Len(outcomes) :
        (outcomes[k] # Nil /\ ~IsRetriable(params, outcomes[k])) =>
        /\ pc = "done"
        /\ result = Annotate(outcomes[k], "error cannot be retried", 0)
        /\ k = Len(outcomes)
        /\ calls = k
        /\ Len(sleeps) = k - 1

C4_Witness ==
    /\ pc = "done"
    /\ exit = "permanent"
    /\ Len(outcomes) = 2
    /\ params.NumRetries = MaxRetries
    /\ params.IsRetriable = "default"
    /\ outcomes[2] = AnnotatedRetriableErr(1)
    /\ Len(sleeps) = 1

\* C5 (as stated, for a context not cancelled before the call): with a
\* budget of 0, whatever fn returns, fn is invoked exactly once and Retry
\* never sleeps.
C5_ZeroBudgetNoSleep ==
    (params.NumRetries = 0 /\ ~PreCancelled) =>
        /\ sleeps = <<>>
        /\ calls <= 1
        /\ pc = "done" => calls = 1

NothingSwallowed ==
    /\ result = Nil => (outcomes # <<>> /\ Last(outcomes) = Nil)
    /\ result # Nil =>
         /\ Head(result).kind = "annotation"
         /\ \/ (ctx.done /\ Cause(result) = ctx.err)
            \/ (outcomes # <<>> /\ Last(outcomes) # Nil
                  /\ Cause(result) = Last(outcomes))

\* C7 (as stated): for every policy, a negative budget included, Retry
\* returns nil only when the most recent invocation of fn returned nil, and
\* otherwise a non-nil annotation of the most recent invocation's error or of
\* the context's error.
C7_NothingSwallowedAnyPolicy == pc = "done" => NothingSwallowed

\* C7 (amended): for every policy whose attempt budget is not negative, Retry
\* returns nil only when the most recent invocation of fn returned nil, and
\* otherwise a non-nil annotation of the most recent invocation's error or of
\* the context's error.
C7_NothingSwallowed ==
    (pc = "done" /\ params.NumRetries >= 0) => NothingSwallowed

C7_Witness ==
    /\ pc = "done"
    /\ params.NumRetries >= 1
    /\ exit = "exhausted"
    /\ result = Annotate(Last(outcomes), "exhausted %d retries", params.NumRetries)

\* C8 (as stated, for a budget that is not negative): when the context ends
\* before or at any point during the sequence, Retry returns the annotated
\* error of the context.
C8_CancelAlwaysReported ==
    (pc = "done" /\ ctx.done /\ params.NumRetries >= 0) => result = CtxError

\* The cancellation was seen by a check at the top of the loop: the context
\* ended before the first check, or in an iteration that is not the last
\* budgeted one and whose attempt returned a retriable error.
CancelObserved ==
    /\ cancelIter < params.NumRetries
    /\ \/ cancelIter = -1
       \/ /\ Len(outcomes) = cancelIter + 1
          /\ IsRetriable(params, outcomes[cancelIter + 1])

\* C8 (amended): when the context ends before or during the sequence, Retry
\* returns the annotated error of the context exactly when a check at the top
\* of an iteration follows the cancellation; when the context ends during an
\* attempt that returns nil or a non-retriable error, or during the attempt
\* or the sleep of the last budgeted iteration, Retry returns what that
\* attempt decides: nil, the error annotated as not retriable, or the error
\* annotated as exhaustion.
C8_CancelReportedAtNextCheck ==
    (pc = "done" /\ ctx.done) =>
        IF CancelObserved
        THEN /\ result = CtxError
             /\ calls = cancelIter + 1
        ELSE /\ exit # "ctx"
             /\ outcomes # <<>> =>
                  result =
                    IF Last(outcomes) = Nil THEN Nil
                    ELSE IF ~IsRetriable(params, Last(outcomes))
                         THEN Annotate(Last(outcomes), "error cannot be retried", 0)
                         ELSE Annotate(Last(outcomes), "exhausted %d retries",
                                       params.NumRetries)

C8_Witness ==
    /\ pc = "done"
    /\ ctx.done
    /\ params.NumRetries = 2
    /\ cancelIter = 2
    /\ exit = "exhausted"
    /\ Len(sleeps) = 3

\* C9 (as stated): the default classifier accepts an error if and only if
\* the error is a RetriableError or wraps one.
C9_AcceptsWrapped ==
    clsPc = "classified" => (clsVerdict <=> WrapsRetriable(clsErr))

\* C9 (amended): the default classifier accepts an error if and only if the
\* error value itself is a RetriableError; a RetriableError wrapped in another
\* error, such as an annotation, is rejected like every other error.
C9_AcceptsOutermostOnly ==
    clsPc = "classified" =>
        (clsVerdict <=> (Len(clsErr) >= 1 /\ clsErr[1].kind = "RetriableError"))

C9_Witness ==
    /\ clsPc = "classified"
    /\ Len(clsErr) >= 2
    /\ clsErr[1].kind = "annotation"
    /\ clsErr[2].kind = "RetriableError"
    /\ ~clsVerdict

\* C10: for every status of a completed request Get returns the response
\* and exactly one of: a nil error for 200..299; an error the default
\* classifier accepts for 500..599; a non-nil error the default classifier
\* rejects for any other status.  ResponseOK and ResponseRetriable are never
\* both true.
C10_GetOutcomeByStatus ==
    (getPc = "classified" /\ getIn.kind = "response") =>
        LET s == getIn.status
        IN /\ getResp = Response(s)
           /\ (200 <= s /\ s <= 299) => getErr = Nil
           /\ (500 <= s /\ s <= 599) => (getErr # Nil /\ getVerdict)
           /\ ~(200 <= s /\ s <= 299) /\ ~(500 <= s /\ s <= 599) =>
                (getErr # Nil /\ ~getVerdict)
           /\ ~(ResponseOK(s) /\ ResponseRetriable(s))

C10_Witness ==
    /\ getPc = "classified"
    /\ getIn.kind = "response"
    /\ getIn.status = 503
    /\ getResp = Response(503)
    /\ getErr # Nil
    /\ getVerdict

\* C14 (as stated): no invocation of fn begins after the context became
\* done, under every interleaving of the cancellation with the loop.
C14_NoCallAfterCancel == lateCalls = 0

\* C14 (amended): once the context is done, no invocation of a later
\* iteration begins; the only invocation that can still begin is the one of
\* the iteration whose check had already passed when the context ended, so
\* at most one invocation begins after the context became done.
C14_AtMostOneLateCall ==
    /\ lateCalls <= 1
    /\ ctx.done => calls <= cancelIter + 1
    /\ lateCalls = 1 => (ctx.done /\ calls = cancelIter + 1)

C14_Witness ==
    /\ pc = "done"
    /\ lateCalls = 1
    /\ cancelIter = 1
    /\ calls = 2
    /\ params.NumRetries = MaxRetries
    /\ exit = "ctx"

Min(a, b) == IF a < b THEN a ELSE b

\* C15 (for waits that are not negative): the first sleep is the minimum
\* wait and each later sleep is min(2 * the sleep before it, maximum wait),
\* for every minimum and maximum wait.
C15_Doubling ==
    (params.RetryMinWait >= 0 /\ params.RetryMaxWait >= 0) =>
        /\ sleeps # <<>> => sleeps[1] = params.RetryMinWait
        /\ \A j \in 1..(Len(sleeps) - 1) :
             sleeps[j + 1] = Min(2 * sleeps[j], params.RetryMaxWait)

RECURSIVE Blocked(_)
\* The time the sleeps of q take when each lasts its full duration.
Blocked(q) ==
    IF q = <<>> THEN 0
    ELSE (IF Head(q) < 0 THEN 0 ELSE Head(q)) + Blocked(Tail(q))

\* C16: a cancellation during an attempt or a sleep interrupts neither: the
\* attempt returns, every sleep lasts its full duration, and Retry returns
\* the context's error, without a further invocation, exactly when another
\* iteration's check follows (the attempt returned a retriable error and
\* budget was left).
C16_CancelSeenAtNextCheck ==
    /\ elapsed = Blocked(IF pc = "sleep" THEN SubSeq(sleeps, 1, Len(sleeps) - 1)
                         ELSE sleeps)
    /\ (pc = "done" /\ ctx.done /\ cancelIter >= 0) =>
         /\ Len(outcomes) = cancelIter + 1
         /\ calls = cancelIter + 1
         /\ exit = "ctx" <=> ( /\ cancelIter < params.NumRetries
                               /\ IsRetriable(params, Last(outcomes)) )
         /\ exit = "ctx" => (result = CtxError /\ Len(sleeps) = cancelIter + 1)

C16_Witness ==
    /\ pc = "done"
    /\ exit = "ctx"
    /\ cancelIter = 1
    /\ Len(outcomes) = 2
    /\ Len(sleeps) = 2
    /\ sleeps[2] > 0
    /\ elapsed = sleeps[1] + sleeps[2]

\* C17: the indices passed to fn are 0, 1, 2, ... in order, without gap or
\* repetition; none exceeds the attempt budget, and a sequence that runs
\* through its whole budget ends with the budget as its last index.
C17_IndicesInOrder ==
    /\ \A j \in 1..Len(args) : args[j] = j - 1
    /\ \A j \in 1..Len(args) : args[j] <= params.NumRetries
    /\ (exit = "exhausted" /\ params.NumRetries >= 0) =>
         (args # <<>> /\ Last(args) = params.NumRetries)

C17_Witness ==
    /\ pc = "done"
    /\ exit = "exhausted"
    /\ Len(args) = MaxRetries + 1
    /\ Last(args) = MaxRetries
    /\ args[1] = 0

Is5xx(in) == in.kind = "response" /\ 500 <= in.status /\ in.status <= 599
Is2xx(in) == in.kind = "response" /\ 200 <= in.status /\ in.status <= 299

\* C11: under the default classifier, with budget N and a context that is
\* not cancelled, when the endpoint answers j <= N requests with 5xx and the
\* next with 2xx, GetRetry has issued exactly j+1 requests and returns the
\* 2xx response with a nil error; a 5xx answer never ends the sequence as a
\* success or as a permanent failure.
C11_RetriesUntil2xx ==
    /\ \A j \in 0..MaxRetries :
         ( /\ params.IsRetriable = "default"
           /\ ~ctx.done
           /\ j <= params.NumRetries
           /\ Len(grInputs) >= j + 1
           /\ \A q \in 1..j : Is5xx(grInputs[q])
           /\ Is2xx(grInputs[j + 1]) ) =>
         /\ pc = "done"
         /\ result = Nil
         /\ grRequests = j + 1
         /\ Len(grInputs) = j + 1
         /\ grResp = Response(grInputs[j + 1].status)
    /\ ( /\ params.IsRetriable = "default"
         /\ grInputs # <<>>
         /\ Is5xx(Last(grInputs)) ) => exit \notin {"ok", "permanent"}

C11_Witness ==
    /\ pc = "done"
    /\ params.IsRetriable = "default"
    /\ ~ctx.done
    /\ Len(grInputs) = 2
    /\ grInputs[1].status = 500
    /\ grInputs[2].status = 200
    /\ result = Nil
    /\ grResp = Response(200)
    /\ grRequests = 2

IsTransportFailure(in) == in.kind = "transport_error"

\* C12: a request that fails before any status is obtained makes Get return
\* an error the default classifier rejects; under the default classifier
\* GetRetry then has issued exactly one request and returns that failure;
\* under a caller's classifier that accepts the error GetRetry retries it up
\* to the budget.
C12_TransportFailure ==
    /\ \A k \in 1..Len(grInputs) :
         (IsTransportFailure(grInputs[k]) /\ Len(outcomes) >= k) =>
         /\ outcomes[k] # Nil
         /\ Head(outcomes[k]).kind # "RetriableError"
    /\ ( /\ params.IsRetriable = "default"
         /\ grInputs # <<>>
         /\ IsTransportFailure(grInputs[1]) ) =>
         /\ pc = "done"
         /\ exit = "permanent"
         /\ grRequests = 1
         /\ result = Annotate(outcomes[1], "error cannot be retried", 0)
         /\ Cause(outcomes[1]) = Reason("transport", 0)
    /\ ( /\ params.IsRetriable = "any"
         /\ pc = "done"
         /\ ~ctx.done
         /\ params.NumRetries >= 0
         /\ grUriOk
         /\ \A k \in 1..Len(grInputs) : IsTransportFailure(grInputs[k]) ) =>
         /\ exit = "exhausted"
         /\ grRequests = params.NumRetries + 1

C12_Witness ==
    /\ pc = "done"
    /\ params.IsRetriable = "default"
    /\ params.NumRetries = MaxRetries
    /\ Len(grInputs) = 1
    /\ IsTransportFailure(grInputs[1])
    /\ grRequests = 1
    /\ exit = "permanent"

\* The response of one call of Get: none unless the request completed.
ResponseOf(in) == IF in.kind = "response" THEN Response(in.status) ELSE NoResponse

MaxCalls == IF params.NumRetries + 1 > 0 THEN params.NumRetries + 1 ELSE 0

\* C20: Retry terminates, after at most max(0, attempts + 1) invocations of
\* fn and at most that many sleeps, whether or not the context is cancelled.
C20_Terminates ==
    /\ <>(pc = "done")
    /\ [](calls <= MaxCalls /\ Len(sleeps) <= MaxCalls)

C20_Witness ==
    /\ pc = "done"
    /\ params.NumRetries = MaxRetries
    /\ calls = MaxRetries + 1
    /\ Len(sleeps) = MaxRetries + 1
    /\ ctx.done

RECURSIVE WaitAfter(_, _)
\* The wait of a sequence that has finished k sleeps under policy p.
WaitAfter(p, k) ==
    IF k = 0 THEN p.RetryMinWait ELSE NextWait(WaitAfter(p, k - 1), p)

\* The sleeps a sequence has finished.
SleepsDone(r) ==
    IF r.pc = "sleep" THEN Len(r.sleeps) - 1 ELSE Len(r.sleeps)

\* What C13 says of one sequence: its wait, its sleeps and its invocations
\* follow from the policy and from what its own fn returned, whatever the
\* other sequence does.
OwnHistoryOnly(q) ==
    LET r == cSeq[q]
        accepted == Cardinality({j \in 1..Len(r.outcomes) :
                                    IsRetriable(cParams, r.outcomes[j])})
    IN r.pc # "start" =>
         /\ cWait[q] = WaitAfter(cParams, SleepsDone(r))
         /\ Len(r.sleeps) = accepted
         /\ \A j \in 1..Len(r.sleeps) : r.sleeps[j] = WaitAfter(cParams, j - 1)
         /\ r.calls = Len(r.outcomes) + (IF r.pc = "attempt" THEN 1 ELSE 0)
         /\ r.calls <= accepted + 1

\* C13: concurrent sequences on one policy share no mutable state: no step
\* of Retry writes the policy, and each sequence's wait, sleeps and
\* invocations are those its own history gives, under every interleaving.
C13_NoSharedState ==
    /\ [][cParams' = cParams]_vars
    /\ [](\A q \in Procs : OwnHistoryOnly(q))

C13_Witness ==
    /\ cSeq[1].pc = "sleep"
    /\ cSeq[2].pc = "sleep"
    /\ Len(cSeq[1].sleeps) = 3
    /\ Len(cSeq[2].sleeps) = 1
    /\ cWait[1] # cWait[2]
    /\ cParams.RetryMinWait = 1
    /\ cParams.RetryMaxWait = MaxDuration

====
